---- MODULE Spec2Model ----
(***************************************************************************)
(* DeliveryOptimizationDashboard (src/tailwind.config.js, lines 35-125 and *)
(* the JSX handlers): the React component's state, its mount effect, the   *)
(* metric refresh timer, the vehicle selector and generateRoute.           *)
(*                                                                         *)
(* Conventions.                                                            *)
(*  - A decimal number literal of the source (55.2) is held in tenths      *)
(*    (Tenths(55, 2) = 552); integers of the same field are held in tenths *)
(*    too (0 -> 0).  fuelCost and deliveries are plain integers.           *)
(*  - A stop label '<emoji> <place> - <order>' is held as the record of    *)
(*    its parts; the emoji is named ("factory", "package").                *)
(*  - A time string 'hh:mm AM' is held as <<hh, mm, "AM">>.                *)
(*  - JavaScript objects that the code creates with an object literal and  *)
(*    hands to setOptimizedRouteData live in heap; optimizedRouteData is a *)
(*    reference (an index of heap).  The object {} is the record with no   *)
(*    field, <<>>.                                                         *)
(*  - Math.random() is a number k / RandomResolution, 0 <= k <             *)
(*    RandomResolution.                                                    *)
(*  - Time passes only in SpecTimer (action Advance); in the other         *)
(*    specifications the timer may fire at any moment and elapsed stays 0. *)
(*  - The three checkboxes have no handler and are no component state;     *)
(*    the user toggles them only in SpecPriorities.                        *)
(***************************************************************************)
EXTENDS Integers, Sequences, FiniteSets, TLC

VARIABLES
    phase,              \* "rendered" (state initialised, effect not yet run), "mounted", "unmounted"
    activeTab,          \* useState('overview')
    orders,             \* useState([])
    vehicles,           \* useState([...three vehicles...])
    selectedVehicle,    \* useState('VEH_001')
    deliveryMetrics,    \* useState({})
    optimizedRouteData, \* useState({}): a reference into heap
    heap,               \* the plan objects created so far, by address
    interval,           \* the ids of the active timers created by setInterval
    calls,              \* history: the generateRoute invocations, in order
    lastOp,             \* history: the handler that took the last step
    pc,                 \* per concurrent caller: its position in generateRoute
    arg,                \* per concurrent caller: the vehicleId it passed
    locals,             \* per activation record: the let-variables of generateRoute
    priorities,         \* the 'Optimization Priorities' checkboxes (state of the DOM inputs)
    elapsed             \* time since the timer was started or last fired, in TimeUnitMs

compVars == <<phase, activeTab, orders, vehicles, selectedVehicle, deliveryMetrics,
              optimizedRouteData, heap, interval, calls>>

callerVars == <<pc, arg, locals>>

\* State outside the component's useState cells: the uncontrolled checkboxes and
\* the clock of the interval timer.
envVars == <<priorities, elapsed>>

vars == <<compVars, lastOp, callerVars, envVars>>

-----------------------------------------------------------------------------
(* Bounds *)

\* generateRoute is invoked at most MaxCalls times in a run (the mount call included).
MaxCalls == 3

\* Math.random() is drawn from multiples of 1 / RandomResolution.
RandomResolution == 1000

\* The draws of Math.random() the model enumerates: the least and the greatest.
RandomValues == {0, RandomResolution - 1}

\* The clock of SpecTimer counts in units of TimeUnitMs milliseconds.
TimeUnitMs == 10000

\* The concurrent callers of generateRoute.
Callers == {"A", "B"}

\* The identifiers a direct caller of generateRoute may pass: the three known
\* ids, the empty string and an unseen token.
Identifiers == {"VEH_001", "VEH_002", "VEH_003", "", "VEH_004"}

-----------------------------------------------------------------------------
(* Values *)

Tenths(whole, frac) == whole * 10 + frac

Stop(marker, place, order) == [marker |-> marker, place |-> place, order |-> order]

RouteStop(stop, time) == [stop |-> stop, time |-> time]

\* useState([...]) at the vehicles declaration
InitialVehicles ==
    << [id |-> "VEH_001", name |-> "Large Truck", capacity |-> "1000kg capacity"],
       [id |-> "VEH_002", name |-> "Medium Van",  capacity |-> "750kg capacity"],
       [id |-> "VEH_003", name |-> "Small Van",   capacity |-> "500kg capacity"] >>

\* setInterval(..., 500000): the delay of the refresh timer, in milliseconds
IntervalDelayMs == 500000

\* 'Live updates every 30 seconds', the period the two panel headers state, in
\* milliseconds
StatedPeriodMs == 30000

\* the checkboxes as rendered: defaultChecked, defaultChecked, unchecked
DefaultPriorities == [urgentFirst |-> TRUE, shortestDistance |-> TRUE, traffic |-> FALSE]

\* Mutant: the tracking button carries the id 'live', which no panel tests.
TabIdsMisspelt == {"overview", "live", "analytics", "routes"}

\* the tab ids of the four TabButtons
TabIds == {"overview", "tracking", "analytics", "routes"}

\* obj.field of JavaScript: undefined when the object has no such property
Undefined == "undefined"

Get(obj, field) == IF field \in DOMAIN obj THEN obj[field] ELSE Undefined

-----------------------------------------------------------------------------
(* The component's state as one value: handlers are functions on it *)

Cur ==
    [phase |-> phase, activeTab |-> activeTab, orders |-> orders,
     vehicles |-> vehicles, selectedVehicle |-> selectedVehicle,
     deliveryMetrics |-> deliveryMetrics,
     optimizedRouteData |-> optimizedRouteData, heap |-> heap,
     interval |-> interval, calls |-> calls]

\* The state after a handler has run and React has committed its updates.
Commit(s) ==
    /\ phase' = s.phase
    /\ activeTab' = s.activeTab
    /\ orders' = s.orders
    /\ vehicles' = s.vehicles
    /\ selectedVehicle' = s.selectedVehicle
    /\ deliveryMetrics' = s.deliveryMetrics
    /\ optimizedRouteData' = s.optimizedRouteData
    /\ heap' = s.heap
    /\ interval' = s.interval
    /\ calls' = s.calls

-----------------------------------------------------------------------------
(* generateRoute *)

\* let newRoute = []; let totalDistance = 0; ... let deliveries = 0;
InitialLocals ==
    [newRoute |-> <<>>, totalDistance |-> 0, estimatedTime |-> 0,
     fuelCost |-> 0, deliveries |-> 0]

\* switch (vehicleId) { ... }: the locals l after the switch statement.
SwitchCase(vehicleId, l) ==
    CASE vehicleId = "VEH_001" ->
           [newRoute |->
              << RouteStop(Stop("factory", "Depot (Start)", ""),        <<8, 0, "AM">>),
                 RouteStop(Stop("package", "Bandra West", "ORD_001"),   <<8, 25, "AM">>),
                 RouteStop(Stop("package", "Andheri East", "ORD_003"),  <<9, 10, "AM">>),
                 RouteStop(Stop("package", "Churchgate", "ORD_002"),    <<9, 45, "AM">>),
                 RouteStop(Stop("package", "Powai", "ORD_004"),         <<10, 30, "AM">>),
                 RouteStop(Stop("factory", "Return to Depot", ""),      <<11, 15, "AM">>) >>,
            totalDistance |-> Tenths(55, 2),
            estimatedTime |-> Tenths(3, 2),
            fuelCost |-> 480,
            deliveries |-> 4]
      [] vehicleId = "VEH_002" ->
           [newRoute |->
              << RouteStop(Stop("factory", "Depot (Start)", ""),        <<8, 0, "AM">>),
                 RouteStop(Stop("package", "Worli", "ORD_005"),         <<8, 20, "AM">>),
                 RouteStop(Stop("package", "Bandra West", "ORD_001"),   <<8, 50, "AM">>),
                 RouteStop(Stop("package", "Andheri East", "ORD_003"),  <<9, 35, "AM">>),
                 RouteStop(Stop("factory", "Return to Depot", ""),      <<10, 10, "AM">>) >>,
            totalDistance |-> Tenths(42, 1),
            estimatedTime |-> Tenths(2, 8),
            fuelCost |-> 350,
            deliveries |-> 3]
      [] vehicleId = "VEH_003" ->
           [newRoute |->
              << RouteStop(Stop("factory", "Depot (Start)", ""),        <<8, 0, "AM">>),
                 RouteStop(Stop("package", "Churchgate", "ORD_002"),    <<8, 30, "AM">>),
                 RouteStop(Stop("package", "Worli", "ORD_005"),         <<9, 0, "AM">>),
                 RouteStop(Stop("factory", "Return to Depot", ""),      <<9, 45, "AM">>) >>,
            totalDistance |-> Tenths(32, 5),
            estimatedTime |-> Tenths(2, 5),
            fuelCost |-> 285,
            deliveries |-> 2]
      [] OTHER -> [l EXCEPT !.newRoute = <<>>]

\* The plan object the state currently refers to.
CurrentPlan == heap[optimizedRouteData]

\* Mutant: the break after the VEH_002 case is missing, so the case falls
\* through into the VEH_003 assignments.
generateRouteLocalsFallthrough(vehicleId) ==
    IF vehicleId = "VEH_002" THEN SwitchCase("VEH_003", InitialLocals)
    ELSE SwitchCase(vehicleId, InitialLocals)

\* Mutant: the five variables are not reset on entry; they start from the
\* values of the plan that is current.
generateRouteLocalsStale(vehicleId) ==
    SwitchCase(vehicleId,
               IF "route" \in DOMAIN CurrentPlan
               THEN [newRoute |-> CurrentPlan.route,
                     totalDistance |-> CurrentPlan.totalDistance,
                     estimatedTime |-> CurrentPlan.estimatedTime,
                     fuelCost |-> CurrentPlan.fuelCost,
                     deliveries |-> CurrentPlan.deliveries]
               ELSE InitialLocals)

\* Mutant: the return to the depot is left out of every route.
generateRouteLocalsNoReturn(vehicleId) ==
    LET l == SwitchCase(vehicleId, InitialLocals)
    IN  [l EXCEPT !.newRoute = SubSeq(l.newRoute, 1, Len(l.newRoute) - 1)]

\* Mutant: a hidden counter; the fuel cost grows with every invocation.
generateRouteLocalsCounting(vehicleId) ==
    LET l == SwitchCase(vehicleId, InitialLocals)
    IN  [l EXCEPT !.fuelCost = l.fuelCost + Len(calls)]

\* Mutant: the table is adjusted by the checkboxes; without 'Optimize for
\* shortest distance' the route is 5.0 km longer, with 'Consider traffic
\* patterns' it costs 20 more.
generateRouteLocalsPrioritised(vehicleId) ==
    LET l == SwitchCase(vehicleId, InitialLocals)
    IN  [l EXCEPT !.totalDistance = IF priorities.shortestDistance THEN @ ELSE @ + Tenths(5, 0),
                  !.fuelCost = IF priorities.traffic THEN @ + 20 ELSE @]

\* Mutant: the second and the third stop of every route are exchanged, the
\* times staying with their stops.
generateRouteLocalsSwappedStops(vehicleId) ==
    LET l == SwitchCase(vehicleId, InitialLocals)
        r == l.newRoute
    IN  IF Len(r) < 3 THEN l
        ELSE [l EXCEPT !.newRoute = [r EXCEPT ![2] = r[3], ![3] = r[2]]]

\* The locals of one sequential invocation after the switch statement.
generateRouteLocals(vehicleId) == SwitchCase(vehicleId, InitialLocals)

\* Mutant: deliveries is taken as the number of stops, depot stops included.
RouteObjectCountingStops(l) ==
    [route |-> l.newRoute,
     totalDistance |-> l.totalDistance,
     estimatedTime |-> l.estimatedTime,
     fuelCost |-> l.fuelCost,
     deliveries |-> Len(l.newRoute)]

\* The object literal handed to setOptimizedRouteData.
RouteObject(l) ==
    [route |-> l.newRoute,
     totalDistance |-> l.totalDistance,
     estimatedTime |-> l.estimatedTime,
     fuelCost |-> l.fuelCost,
     deliveries |-> l.deliveries]

\* Mutant: the object the state refers to is overwritten in place
\* (Object.assign(optimizedRouteData, value)) instead of being replaced.
setOptimizedRouteDataInPlace(s, value) ==
    [s EXCEPT !.heap = [s.heap EXCEPT ![s.optimizedRouteData] = value]]

\* setOptimizedRouteData(value) with a fresh object: the object is allocated and
\* the state holds the reference to it from the next render on.
setOptimizedRouteData(s, value) ==
    [s EXCEPT !.heap = Append(s.heap, value),
              !.optimizedRouteData = Len(s.heap) + 1]

\* The record of an invocation: the identifier passed, the object built and
\* the state of the checkboxes at the time.
LogCall(s, vehicleId) ==
    [s EXCEPT !.calls = Append(s.calls, [vehicleId |-> vehicleId,
                                         result |-> s.optimizedRouteData,
                                         priorities |-> priorities])]

\* Mutant: generateRoute also clears the live metrics.
generateRouteClearingMetrics(s, vehicleId) ==
    LogCall(setOptimizedRouteData([s EXCEPT !.deliveryMetrics = <<>>],
                                  RouteObject(SwitchCase(vehicleId, InitialLocals))),
            vehicleId)

\* generateRoute(vehicleId): the whole function, run to completion.
generateRoute(s, vehicleId) ==
    LogCall(setOptimizedRouteData(s, RouteObject(generateRouteLocals(vehicleId))),
            vehicleId)

-----------------------------------------------------------------------------
(* The metric refresh *)

\* Mutant: Math.round in place of Math.floor.
FloorScaledRounding(k, scale, base) ==
    ((2 * k * scale + RandomResolution) \div (2 * RandomResolution)) + base

\* Math.floor(r * scale) + base, r = k / RandomResolution
FloorScaled(k, scale, base) == ((k * scale) \div RandomResolution) + base

\* (r * scale + base).toFixed(1), in tenths: scaleTenths and baseTenths are
\* scale and base in tenths; rounds to the nearest tenth.
ToFixed1(k, scaleTenths, baseTenths) ==
    ((2 * (k * scaleTenths + baseTenths * RandomResolution)) + RandomResolution)
        \div (2 * RandomResolution)

\* the object literal of the interval callback, one Math.random() per field
MetricsObject(r) ==
    [totalOrders |-> FloorScaled(r[1], 100, 150),
     deliveredOrders |-> FloorScaled(r[2], 80, 120),
     inTransitOrders |-> FloorScaled(r[3], 20, 15),
     averageDeliveryTime |-> ToFixed1(r[4], 5, 21),
     onTimeDeliveryRate |-> ToFixed1(r[5], 50, 920),
     customerSatisfaction |-> ToFixed1(r[6], 3, 42)]

\* Mutant: the timer callback also resets the selection to the first vehicle.
IntervalCallbackResetting(s, r) ==
    [s EXCEPT !.deliveryMetrics = MetricsObject(r), !.selectedVehicle = "VEH_001"]

\* the setInterval callback: setDeliveryMetrics({...})
IntervalCallback(s, r) == [s EXCEPT !.deliveryMetrics = MetricsObject(r)]

-----------------------------------------------------------------------------
(* The handlers *)

\* useEffect(() => {...}, []): setInterval, then generateRoute('VEH_001')
MountEffect(s) ==
    generateRoute([s EXCEPT !.phase = "mounted",
                            !.interval = s.interval \cup {Cardinality(s.interval) + 1}],
                  "VEH_001")

\* Mutant: the effect returns no cleanup, so the timer is never cleared.
CleanupKeepingTimer(s) == [s EXCEPT !.phase = "unmounted"]

\* the effect's cleanup: clearInterval(interval)
Cleanup(s) == [s EXCEPT !.phase = "unmounted", !.interval = {}]

\* Mutant: switching tabs also puts the select back to the first vehicle.
setActiveTabResetting(s, id) ==
    [s EXCEPT !.activeTab = id, !.selectedVehicle = "VEH_001"]

\* TabButton onClick={() => onClick(id)} with onClick = setActiveTab
setActiveTab(s, id) == [s EXCEPT !.activeTab = id]

\* Mutant: the handler also moves the chosen vehicle to the front of the table
\* (setVehicles).
onVehicleChangeReordering(s, value) ==
    LET chosen == SelectSeq(s.vehicles, LAMBDA v : v.id = value)
        others == SelectSeq(s.vehicles, LAMBDA v : v.id # value)
    IN  generateRoute([s EXCEPT !.selectedVehicle = value,
                                !.vehicles = chosen \o others], value)

\* Mutant: the handler passes the state variable selectedVehicle, which still
\* holds the previous selection, instead of e.target.value.
onVehicleChangeStale(s, value) ==
    generateRoute([s EXCEPT !.selectedVehicle = value], s.selectedVehicle)

\* the vehicle select's onChange: setSelectedVehicle(value); generateRoute(value)
onVehicleChange(s, value) ==
    generateRoute([s EXCEPT !.selectedVehicle = value], value)

\* Mutant: the select starts with a placeholder option, <option value="">.
OptionValuesWithBlank == {vehicles[i].id : i \in DOMAIN vehicles} \cup {""}

\* the values of the <option> elements of the vehicle select
OptionValues == {vehicles[i].id : i \in DOMAIN vehicles}

-----------------------------------------------------------------------------
(* Rendering *)

\* JavaScript truthiness of a property that is undefined or an array
Truthy(v) == v # Undefined

\* Mutant: the summary block tests only that route exists.
SummaryConditionRouteOnly(plan) == Truthy(Get(plan, "route"))

\* optimizedRouteData.route && optimizedRouteData.route.length > 0, the
\* condition of the ternary that renders the stop list
ListCondition(plan) ==
    /\ Truthy(Get(plan, "route"))
    /\ Len(Get(plan, "route")) > 0

\* the same test written again in front of the summary block
SummaryCondition(plan) ==
    /\ Truthy(Get(plan, "route"))
    /\ Len(Get(plan, "route")) > 0

\* The Route Preview as rendered from a plan: which of its three parts exist.
RoutePreview(plan) ==
    [stopList |-> ListCondition(plan),
     placeholder |-> ~ListCondition(plan),
     summary |-> SummaryCondition(plan)]

\* activeTab === '<panel>' && (...): the panels that are rendered
RenderedPanels ==
    {panel \in {"overview", "tracking", "analytics", "routes"} : activeTab = panel}

\* obj.field || fallback for a numeric field: undefined and 0 are falsy
OrElse(obj, field, fallback) ==
    IF field \notin DOMAIN obj THEN fallback
    ELSE IF obj[field] = 0 THEN fallback ELSE obj[field]

\* the values of the first two MetricCards of the Overview
OverviewTotalOrders == OrElse(deliveryMetrics, "totalOrders", 185)

OverviewDeliveredOrders == OrElse(deliveryMetrics, "deliveredOrders", 142)

-----------------------------------------------------------------------------
(* The component as a state machine *)

Init ==
    /\ phase = "rendered"
    /\ activeTab = "overview"
    /\ orders = <<>>
    /\ vehicles = InitialVehicles
    /\ selectedVehicle = "VEH_001"
    /\ deliveryMetrics = <<>>
    /\ heap = << <<>> >>
    /\ optimizedRouteData = 1
    /\ interval = {}
    /\ calls = <<>>
    /\ lastOp = "init"
    /\ pc = [c \in Callers |-> "idle"]
    /\ arg = [c \in Callers |-> ""]
    /\ locals = [c \in Callers |-> InitialLocals]
    /\ priorities = DefaultPriorities
    /\ elapsed = 0

\* The mount effect runs once, after the first render.
Mount ==
    /\ phase = "rendered"
    /\ Commit(MountEffect(Cur))
    /\ lastOp' = "mount"
    /\ elapsed' = 0
    /\ UNCHANGED <<callerVars, priorities>>

\* The timer fires while it is active; its clock starts again.
Tick ==
    /\ interval # {}
    /\ \E r \in [1..6 -> RandomValues] : Commit(IntervalCallback(Cur, r))
    /\ lastOp' = "tick"
    /\ elapsed' = 0
    /\ UNCHANGED <<callerVars, priorities>>

Unmount ==
    /\ phase = "mounted"
    /\ Commit(Cleanup(Cur))
    /\ lastOp' = "unmount"
    /\ priorities' = DefaultPriorities
    /\ UNCHANGED <<callerVars, elapsed>>

\* The routes panel is rendered only while activeTab is 'routes': when it is
\* rendered anew its checkboxes start from their defaultChecked values.
TabClick(id) ==
    /\ phase = "mounted"
    /\ Commit(setActiveTab(Cur, id))
    /\ lastOp' = "tab"
    /\ priorities' = IF activeTab = "routes" /\ id = "routes" THEN priorities
                     ELSE DefaultPriorities
    /\ UNCHANGED <<callerVars, elapsed>>

\* The select is rendered on the routes tab only.
VehicleSelectChange(value) ==
    /\ phase = "mounted"
    /\ activeTab = "routes"
    /\ Len(calls) < MaxCalls
    /\ Commit(onVehicleChange(Cur, value))
    /\ lastOp' = "select"
    /\ UNCHANGED <<callerVars, envVars>>

Next ==
    \/ Mount
    \/ Tick
    \/ Unmount
    \/ \E id \in TabIds : TabClick(id)
    \/ \E value \in OptionValues : VehicleSelectChange(value)

Spec == Init /\ [][Next]_vars

-----------------------------------------------------------------------------
(* The selector alone: callers that invoke generateRoute with any identifier *)

DirectCall(vehicleId) ==
    /\ phase = "mounted"
    /\ Len(calls) < MaxCalls
    /\ Commit(generateRoute(Cur, vehicleId))
    /\ lastOp' = "call"
    /\ UNCHANGED <<callerVars, envVars>>

NextSelector ==
    \/ Mount
    \/ Tick
    \/ Unmount
    \/ \E vehicleId \in Identifiers : DirectCall(vehicleId)

SpecSelector == Init /\ [][NextSelector]_vars

-----------------------------------------------------------------------------
(* The routes tab with its checkboxes: the user also toggles the three       *)
(* uncontrolled inputs, which no handler of the component observes.          *)

\* the three checkboxes of 'Optimization Priorities'
PriorityNames == {"urgentFirst", "shortestDistance", "traffic"}

\* The browser's default action on a click: the input's checked state flips.
TogglePriority(name) ==
    /\ phase = "mounted"
    /\ activeTab = "routes"
    /\ priorities' = [priorities EXCEPT ![name] = ~@]
    /\ lastOp' = "toggle"
    /\ UNCHANGED <<compVars, callerVars, elapsed>>

NextPriorities ==
    \/ Mount
    \/ \E id \in TabIds : TabClick(id)
    \/ \E name \in PriorityNames : TogglePriority(name)
    \/ \E value \in OptionValues : VehicleSelectChange(value)

SpecPriorities == Init /\ [][NextPriorities]_vars

-----------------------------------------------------------------------------
(* The refresh timer with its clock: time passes, and the callback runs when *)
(* the delay passed to setInterval has elapsed.                              *)

\* the delay in clock units
IntervalDelay == IntervalDelayMs \div TimeUnitMs

\* Time passes while the component is mounted; a due timer fires first.
Advance ==
    /\ phase = "mounted"
    /\ elapsed < IntervalDelay
    /\ elapsed' = elapsed + 1
    /\ lastOp' = "advance"
    /\ UNCHANGED <<compVars, callerVars, priorities>>

\* The callback runs when the timer is due.
TimedTick ==
    /\ elapsed = IntervalDelay
    /\ Tick

NextTimer ==
    \/ Mount
    \/ Advance
    \/ TimedTick
    \/ Unmount

SpecTimer == Init /\ [][NextTimer]_vars

-----------------------------------------------------------------------------
(* The Route Preview over every plan generateRoute can build: the tabs, and  *)
(* callers that invoke generateRoute with any identifier.                    *)

NextPreview ==
    \/ Mount
    \/ Unmount
    \/ \E id \in TabIds : TabClick(id)
    \/ \E vehicleId \in Identifiers : DirectCall(vehicleId)

SpecPreview == Init /\ [][NextPreview]_vars

-----------------------------------------------------------------------------
(* Concurrent callers: invocations of generateRoute interleaved statement by *)
(* statement.  JavaScript runs each invocation to completion, so every run   *)
(* of the program is a run of this specification in which a caller's three   *)
(* steps are adjacent.                                                       *)

\* Mutant: the five variables are declared outside the function, so all
\* invocations share one set.
LocalsSlotShared(c) == CHOOSE c0 \in Callers : TRUE

\* The activation record of a caller's invocation: the let-variables are
\* declared inside the function body, one set per invocation.
LocalsSlot(c) == c

\* Invocations that have been entered and have not yet reached the setter.
Active == {c \in Callers : pc[c] # "idle"}

\* generateRoute is entered: the five let-declarations.
CallerEnter(c, vehicleId) ==
    /\ phase = "mounted"
    /\ pc[c] = "idle"
    /\ Len(calls) + Cardinality(Active) < MaxCalls
    /\ pc' = [pc EXCEPT ![c] = "entered"]
    /\ arg' = [arg EXCEPT ![c] = vehicleId]
    /\ locals' = [locals EXCEPT ![LocalsSlot(c)] = InitialLocals]
    /\ lastOp' = "enter"
    /\ UNCHANGED <<compVars, envVars>>

\* the switch statement
CallerSwitch(c) ==
    /\ pc[c] = "entered"
    /\ pc' = [pc EXCEPT ![c] = "switched"]
    /\ locals' = [locals EXCEPT ![LocalsSlot(c)] = SwitchCase(arg[c], locals[LocalsSlot(c)])]
    /\ lastOp' = "switch"
    /\ UNCHANGED <<compVars, arg, envVars>>

\* setOptimizedRouteData({route: newRoute, ...}) and the return
CallerSet(c) ==
    /\ pc[c] = "switched"
    /\ pc' = [pc EXCEPT ![c] = "idle"]
    /\ Commit(LogCall(setOptimizedRouteData(Cur, RouteObject(locals[LocalsSlot(c)])),
                      arg[c]))
    /\ lastOp' = "set"
    /\ UNCHANGED <<arg, locals, envVars>>

NextConcurrent ==
    \/ Mount
    \/ \E c \in Callers, vehicleId \in Identifiers : CallerEnter(c, vehicleId)
    \/ \E c \in Callers : CallerSwitch(c)
    \/ \E c \in Callers : CallerSet(c)

SpecConcurrent == Init /\ [][NextConcurrent]_vars

-----------------------------------------------------------------------------
(* Properties *)

KnownIds == {"VEH_001", "VEH_002", "VEH_003"}

\* The plan object the i-th invocation of generateRoute handed to the setter.
PlanOfCall(i) == heap[calls[i].result]

Called(vehicleId) == \E i \in DOMAIN calls : calls[i].vehicleId = vehicleId

IsDepot(routeStop) == routeStop.stop.marker = "factory"

Places(route) == [k \in DOMAIN route |-> route[k].stop.place]

Summary(stops, distance, time, fuel, count) ==
    [stops |-> stops, totalDistance |-> distance, estimatedTime |-> time,
     fuelCost |-> fuel, deliveries |-> count]

SummaryOf(plan) ==
    Summary(Len(plan.route), plan.totalDistance, plan.estimatedTime,
            plan.fuelCost, plan.deliveries)

\* C1: every invocation of generateRoute with a known vehicle id yields the
\* predefined values: VEH_001 -> 6 stops, 55.2 km, 3.2 h, fuel cost 480,
\* 4 deliveries; VEH_002 -> 5 stops, 42.1 km, 2.8 h, 350, 3; VEH_003 ->
\* 4 stops, 32.5 km, 2.5 h, 285, 2.
C1_KnownVehiclePlans ==
    \A i \in DOMAIN calls :
        LET v == calls[i].vehicleId
            got == SummaryOf(PlanOfCall(i))
        IN  /\ v = "VEH_001" => got = Summary(6, Tenths(55, 2), Tenths(3, 2), 480, 4)
            /\ v = "VEH_002" => got = Summary(5, Tenths(42, 1), Tenths(2, 8), 350, 3)
            /\ v = "VEH_003" => got = Summary(4, Tenths(32, 5), Tenths(2, 5), 285, 2)

\* generateRoute has been invoked with each of the three known ids.
C1_Witness == \A v \in KnownIds : Called(v)

\* C2: every invocation of generateRoute with an identifier that is not a
\* known vehicle id completes and yields the empty plan (no stops, all four
\* metrics 0), whatever plan was current before the call.
C2_UnknownIdEmptyPlan ==
    \A i \in DOMAIN calls :
        calls[i].vehicleId \notin KnownIds =>
            PlanOfCall(i) = [route |-> <<>>, totalDistance |-> 0, estimatedTime |-> 0,
                             fuelCost |-> 0, deliveries |-> 0]

\* An unknown identifier was passed while a plan with stops was current, and
\* both the empty string and the unseen token have been passed.
C2_Witness ==
    /\ Called("") /\ Called("VEH_004")
    /\ \E i \in DOMAIN calls :
          /\ i > 1
          /\ calls[i].vehicleId \notin KnownIds
          /\ Len(PlanOfCall(i - 1).route) > 0

\* C3: for a known vehicle the stops are the predefined ones in the
\* predefined order: the first is the depot start, the last is the return to
\* the depot, and every stop between them is a delivery stop.
C3_StopOrder ==
    \A i \in DOMAIN calls :
        LET v == calls[i].vehicleId
            route == PlanOfCall(i).route
            n == Len(route)
        IN  v \in KnownIds =>
              /\ n >= 2
              /\ IsDepot(route[1]) /\ route[1].stop.place = "Depot (Start)"
              /\ IsDepot(route[n]) /\ route[n].stop.place = "Return to Depot"
              /\ \A k \in 2..(n - 1) : ~IsDepot(route[k])
              /\ v = "VEH_001" =>
                    Places(route) = <<"Depot (Start)", "Bandra West", "Andheri East",
                                      "Churchgate", "Powai", "Return to Depot">>
              /\ v = "VEH_002" =>
                    Places(route) = <<"Depot (Start)", "Worli", "Bandra West",
                                      "Andheri East", "Return to Depot">>
              /\ v = "VEH_003" =>
                    Places(route) = <<"Depot (Start)", "Churchgate", "Worli",
                                      "Return to Depot">>

\* The plans of two different known vehicles have been built after the mount.
C3_Witness ==
    /\ Len(calls) = 3
    /\ calls[2].vehicleId = "VEH_003"
    /\ calls[3].vehicleId = "VEH_002"

\* C4: in every plan generateRoute builds, for known and unknown identifiers,
\* deliveries is the number of stops of the route that are not depot stops.
C4_DeliveriesCountStops ==
    \A i \in DOMAIN calls :
        LET plan == PlanOfCall(i)
        IN  plan.deliveries =
              Cardinality({k \in DOMAIN plan.route : ~IsDepot(plan.route[k])})

\* A plan for a known id and a plan for an unknown id have both been built.
C4_Witness ==
    /\ \E i \in DOMAIN calls : calls[i].vehicleId \in KnownIds \ {"VEH_001"}
    /\ \E i \in DOMAIN calls : calls[i].vehicleId \notin KnownIds

\* C5: two invocations of generateRoute with the same identifier yield
\* structurally identical plans, whatever invocations and metric refreshes
\* happened before or between them.
C5_SameIdSamePlan ==
    \A i, j \in DOMAIN calls :
        calls[i].vehicleId = calls[j].vehicleId => PlanOfCall(i) = PlanOfCall(j)

\* The same identifier was passed twice, with an invocation for another
\* identifier between the two and after a metric refresh.
C5_Witness ==
    /\ Len(calls) = 3
    /\ calls[1].vehicleId = calls[3].vehicleId
    /\ calls[2].vehicleId # calls[1].vehicleId
    /\ calls[1].result # calls[3].result
    /\ deliveryMetrics # <<>>

\* C6: when invocations of generateRoute with different identifiers run
\* concurrently, in whatever order their statements interleave, the plan each
\* invocation hands to the setter is the plan a lone, uninterrupted
\* invocation with the same identifier builds.
C6_ConcurrentCallsIndependent ==
    \A i \in DOMAIN calls :
        PlanOfCall(i) = RouteObject(generateRouteLocals(calls[i].vehicleId))

\* Caller A has completed an invocation that overlapped an invocation of
\* caller B with a different identifier, which is still in progress.
C6_Witness ==
    /\ lastOp = "set"
    /\ pc["A"] = "idle" /\ pc["B"] = "switched"
    /\ arg["A"] # arg["B"]
    /\ calls[Len(calls)].vehicleId = arg["A"]
    /\ arg["A"] \in KnownIds

\* C7 (as stated): an invocation of generateRoute writes no shared state: it
\* leaves activeTab, orders, vehicles, selectedVehicle, deliveryMetrics and
\* optimizedRouteData unchanged.
C7_NoSharedWrite ==
    [][Len(calls') > Len(calls) =>
         UNCHANGED <<activeTab, orders, vehicles, selectedVehicle, deliveryMetrics,
                     optimizedRouteData>>]_vars

\* C7 (amended): an invocation of generateRoute has exactly one side effect:
\* it replaces the shared state optimizedRouteData by the plan it has built.
\* It leaves activeTab, orders, vehicles, selectedVehicle, deliveryMetrics and
\* every plan object built earlier unchanged.
C7_OnlyWritesCurrentPlan ==
    [][Len(calls') > Len(calls) =>
         /\ UNCHANGED <<activeTab, orders, vehicles, selectedVehicle, deliveryMetrics>>
         /\ \A a \in DOMAIN heap : a \in DOMAIN heap' /\ heap'[a] = heap[a]
         /\ optimizedRouteData' # optimizedRouteData
         /\ optimizedRouteData' = calls'[Len(calls')].result]_vars

\* generateRoute was invoked directly after a metric refresh and has replaced
\* the plan of the mount.
C7_Witness ==
    /\ lastOp = "call"
    /\ deliveryMetrics # <<>>
    /\ optimizedRouteData = 3

\* C8: no step changes a plan object that exists; every vehicle selection
\* builds a new, complete plan object and makes the state refer to it, so the
\* plans of earlier selections stay as they were built.
C8_PlanNeverMutated ==
    [][/\ \A a \in DOMAIN heap : a \in DOMAIN heap' /\ heap'[a] = heap[a]
       /\ Len(calls') > Len(calls) =>
            /\ optimizedRouteData' \notin DOMAIN heap
            /\ optimizedRouteData' \in DOMAIN heap'
            /\ DOMAIN heap'[optimizedRouteData'] =
                  {"route", "totalDistance", "estimatedTime", "fuelCost", "deliveries"}]_vars

\* Two selections after the mount: the mount's plan and the first selection's
\* plan are still in the heap next to the current one.
C8_Witness ==
    /\ lastOp = "select"
    /\ Len(calls) = 3
    /\ optimizedRouteData = 4
    /\ Len(heap[2].route) = 6
    /\ calls[2].vehicleId = "VEH_003" /\ Len(heap[3].route) = 4
    /\ selectedVehicle = "VEH_002"

\* C9: in every reachable state the vehicle table is the ordered list
\* VEH_001 (Large Truck, 1000kg), VEH_002 (Medium Van, 750kg), VEH_003
\* (Small Van, 500kg), with pairwise distinct ids; no operation changes it.
C9_VehicleTableFixed ==
    /\ Len(vehicles) = 3
    /\ [k \in 1..3 |-> vehicles[k].id] = <<"VEH_001", "VEH_002", "VEH_003">>
    /\ [k \in 1..3 |-> vehicles[k].name] = <<"Large Truck", "Medium Van", "Small Van">>
    /\ [k \in 1..3 |-> vehicles[k].capacity] =
          <<"1000kg capacity", "750kg capacity", "500kg capacity">>
    /\ \A j, k \in 1..3 : j # k => vehicles[j].id # vehicles[k].id

\* A vehicle other than the first has been selected, the tab has been
\* switched away and the metrics have been refreshed.
C9_Witness ==
    /\ selectedVehicle = "VEH_003"
    /\ activeTab = "analytics"
    /\ deliveryMetrics # <<>>
    /\ lastOp = "tick"

\* C10: a refresh tick leaves selectedVehicle, the current plan (the
\* reference and the plan objects) and activeTab unchanged, and an invocation
\* of generateRoute leaves deliveryMetrics unchanged.
C10_RefreshAndSelectorUncoupled ==
    [][/\ lastOp' = "tick" =>
            UNCHANGED <<selectedVehicle, optimizedRouteData, heap, activeTab, calls>>
       /\ Len(calls') > Len(calls) => UNCHANGED deliveryMetrics]_vars

\* A tick has fired on the routes tab while a vehicle other than the initial
\* one is selected and its plan is current.
C10_Witness ==
    /\ lastOp = "tick"
    /\ activeTab = "routes"
    /\ selectedVehicle = "VEH_002"
    /\ Len(CurrentPlan.route) = 5
    /\ deliveryMetrics.totalOrders = 249

\* C11: once the mount effect has run, after any vehicle selections, tab
\* switches and refresh ticks, the current plan is the plan of the selected
\* vehicle: the last invocation of generateRoute was for selectedVehicle, the
\* state refers to the object it built, and that object has the stops and
\* deliveries of that vehicle.  The plan installed at mount is VEH_001's.
C11_PlanMatchesSelection ==
    phase # "rendered" =>
        /\ calls # <<>>
        /\ calls[Len(calls)].vehicleId = selectedVehicle
        /\ optimizedRouteData = calls[Len(calls)].result
        /\ selectedVehicle = "VEH_001" =>
              Len(CurrentPlan.route) = 6 /\ CurrentPlan.deliveries = 4
        /\ selectedVehicle = "VEH_002" =>
              Len(CurrentPlan.route) = 5 /\ CurrentPlan.deliveries = 3
        /\ selectedVehicle = "VEH_003" =>
              Len(CurrentPlan.route) = 4 /\ CurrentPlan.deliveries = 2
        /\ lastOp = "mount" => selectedVehicle = "VEH_001"

\* Two different vehicles were selected, then the tab was left and the
\* metrics were refreshed.
C11_Witness ==
    /\ Len(calls) = 3
    /\ calls[2].vehicleId = "VEH_002"
    /\ selectedVehicle = "VEH_003"
    /\ activeTab = "tracking"
    /\ lastOp = "tick"

\* C12: the plan of a selection depends on the vehicle identifier only: two
\* selections of the same vehicle made under different states of the three
\* 'Optimization Priorities' checkboxes produce the same plan.
C12_PlanIgnoresPriorities ==
    \A i, j \in DOMAIN calls :
        (/\ calls[i].vehicleId = calls[j].vehicleId
         /\ calls[i].priorities # calls[j].priorities)
            => PlanOfCall(i) = PlanOfCall(j)

\* The same vehicle was selected twice, once with the default checkboxes and
\* once with 'shortest distance' unchecked and 'traffic' checked.
C12_Witness ==
    \E i, j \in DOMAIN calls :
        /\ i > 1 /\ j > i
        /\ calls[i].vehicleId = calls[j].vehicleId
        /\ calls[i].priorities = DefaultPriorities
        /\ calls[j].priorities =
              [urgentFirst |-> TRUE, shortestDistance |-> FALSE, traffic |-> TRUE]

\* C13: while the component is mounted the metrics are refreshed every 30
\* seconds: a refresh that follows an earlier refresh comes 30 seconds after it.
C13_RefreshEvery30Seconds ==
    [][(lastOp' = "tick" /\ deliveryMetrics # <<>>) =>
          elapsed * TimeUnitMs = StatedPeriodMs]_vars

\* C14: through the user interface the empty plan cannot be reached once the
\* mount effect has run: the current plan then has at least one stop, so the
\* Route Preview holds the placeholder only before the mount effect.
C14_NoEmptyPlanAfterMount ==
    /\ phase # "rendered" =>
          /\ "route" \in DOMAIN CurrentPlan
          /\ Len(CurrentPlan.route) >= 1
    /\ RoutePreview(CurrentPlan).placeholder => phase = "rendered"

\* A vehicle has been chosen in the select and the routes panel shows its
\* stop list.
C14_Witness ==
    /\ lastOp = "select"
    /\ "routes" \in RenderedPanels
    /\ selectedVehicle = "VEH_003"
    /\ RoutePreview(CurrentPlan).stopList

\* C15: in the Route Preview the stop list and the summary block are rendered
\* exactly when the current plan has at least one stop, the placeholder
\* exactly when it has none (or the state still holds {}), and the
\* placeholder and the summary are never rendered together.
C15_PreviewParts ==
    LET atLeastOneStop == "route" \in DOMAIN CurrentPlan /\ CurrentPlan.route # <<>>
        preview == RoutePreview(CurrentPlan)
    IN  /\ preview.stopList <=> atLeastOneStop
        /\ preview.summary <=> atLeastOneStop
        /\ preview.placeholder <=> ~atLeastOneStop
        /\ ~(preview.placeholder /\ preview.summary)

\* The routes panel is on screen while the current plan is an empty plan
\* built for an unknown identifier.
C15_Witness ==
    /\ "routes" \in RenderedPanels
    /\ lastOp = "call"
    /\ "route" \in DOMAIN CurrentPlan
    /\ CurrentPlan.route = <<>>
    /\ RoutePreview(CurrentPlan).placeholder

\* C16: a tab switch changes no component state but activeTab: the selected
\* vehicle, the current plan (the reference and the plan objects),
\* deliveryMetrics and the rest of the state stay as they were.
C16_TabSwitchOnlyActiveTab ==
    [][lastOp' = "tab" =>
          UNCHANGED <<selectedVehicle, optimizedRouteData, heap, deliveryMetrics,
                      vehicles, orders, phase, interval, calls>>]_vars

\* A vehicle other than the first was selected on the routes tab, the metrics
\* were refreshed and the user has just switched to another tab.
C16_Witness ==
    /\ lastOp = "tab"
    /\ activeTab = "overview"
    /\ selectedVehicle = "VEH_002"
    /\ Len(CurrentPlan.route) = 5
    /\ deliveryMetrics # <<>>

\* C17: activeTab is always one of overview, tracking, analytics, routes,
\* it is overview initially, and exactly one of the four panels is rendered.
C17_ExactlyOnePanel ==
    /\ activeTab \in {"overview", "tracking", "analytics", "routes"}
    /\ Cardinality(RenderedPanels) = 1
    /\ lastOp \in {"init", "mount"} => activeTab = "overview"

\* The user has switched to the tracking tab: its panel alone is rendered.
C17_Witness ==
    /\ lastOp = "tab"
    /\ RenderedPanels = {"tracking"}

\* C18: the refresh timer exists exactly while the component is mounted, at
\* most one timer is active at any time, and once the component has
\* unmounted no step changes deliveryMetrics.
C18_TimerLifecycle ==
    /\ [](/\ Cardinality(interval) <= 1
          /\ interval # {} <=> phase = "mounted")
    /\ [][phase = "unmounted" => UNCHANGED deliveryMetrics]_vars

\* The component has unmounted after at least one refresh; no timer is left.
C18_Witness ==
    /\ phase = "unmounted"
    /\ lastOp = "unmount"
    /\ deliveryMetrics # <<>>
    /\ interval = {}

\* C19: deliveryMetrics is {} until the first refresh tick, and the Overview
\* then shows 185 total and 142 delivered orders; after a tick totalOrders is
\* in 150..249, deliveredOrders in 120..199 and inTransitOrders in 15..34.
C19_MetricRanges ==
    /\ [](/\ deliveryMetrics = <<>> =>
                OverviewTotalOrders = 185 /\ OverviewDeliveredOrders = 142
          /\ lastOp = "tick" => deliveryMetrics # <<>>
          /\ deliveryMetrics # <<>> =>
                /\ deliveryMetrics.totalOrders \in 150..249
                /\ deliveryMetrics.deliveredOrders \in 120..199
                /\ deliveryMetrics.inTransitOrders \in 15..34)
    /\ [][(deliveryMetrics = <<>> /\ lastOp' # "tick") => deliveryMetrics' = <<>>]_vars

\* A tick has drawn the greatest total, the least delivered and the greatest
\* in-transit number.
C19_Witness ==
    /\ lastOp = "tick"
    /\ deliveryMetrics # <<>>
    /\ deliveryMetrics.totalOrders = 249
    /\ deliveryMetrics.deliveredOrders = 120
    /\ deliveryMetrics.inTransitOrders = 34
    /\ OverviewTotalOrders = 249

\* the minutes after midnight of a time 'hh:mm AM' or 'hh:mm PM'
MinutesOfDay(time) ==
    (time[1] % 12) * 60 + time[2] + (IF time[3] = "PM" THEN 720 ELSE 0)

\* C20: in the plan of every known vehicle the times of the stops increase
\* strictly along the route, the first stop is the depot at 08:00 AM, and no
\* order id occurs at two stops.
C20_TimesIncreaseOrdersDistinct ==
    \A i \in DOMAIN calls :
        LET route == PlanOfCall(i).route
        IN  calls[i].vehicleId \in KnownIds =>
              /\ IsDepot(route[1]) /\ route[1].time = <<8, 0, "AM">>
              /\ \A k \in 1..(Len(route) - 1) :
                    MinutesOfDay(route[k].time) < MinutesOfDay(route[k + 1].time)
              /\ \A j, k \in DOMAIN route :
                    (/\ j # k
                     /\ ~IsDepot(route[j])
                     /\ ~IsDepot(route[k])) => route[j].stop.order # route[k].stop.order

\* The plans of the two vans have been built after the truck's.
C20_Witness ==
    /\ Len(calls) = 3
    /\ calls[2].vehicleId = "VEH_002"
    /\ calls[3].vehicleId = "VEH_003"

====
